---- MODULE Spec2Model ----
(***************************************************************************)
(* Model of kws_watson.py: get_keywords (the stimulus -> keywords index),  *)
(* transcribe (extraction of one keyword spot from a Speech to Text       *)
(* response) and the __main__ driver loop.                                 *)
(*                                                                         *)
(* A Python str is a sequence of one-character strings, so that `in`      *)
(* (substring), str.split and os.path.join are computed, not assumed.     *)
(* A Python dict is a sequence of <<key, value>> pairs in insertion       *)
(* order, with unique keys.                                                *)
(***************************************************************************)
EXTENDS Integers, Sequences, FiniteSets, TLC

VARIABLES
    fieldnames,  \* header of the index csv file (csv_reader.fieldnames)
    lines,       \* data lines of the index csv file, each a list of cells
    pc,          \* position in the program
    i,           \* rows consumed by the reader of get_keywords
    keywords,    \* the {stimulus: [dominant, secondary]} dict
    line,        \* line counter of the driver loop
    output,      \* rows this run appended to output_file
    calls,       \* service.recognize calls made so far
    err,         \* the uncaught exception, "" when none
    results,     \* `results` of the last transcribe call
    transcript   \* value returned by the last transcribe call

vars == <<fieldnames, lines, pc, i, keywords, line, output, calls, err,
          results, transcript>>

(* ------------------------------ bounds -------------------------------- *)
MaxRows == 3      \* data lines in the index csv file
MaxSpots == 2     \* spots listed for one keyword
MaxSegs == 2      \* result segments in a service response

(* ------------------------------ strings ------------------------------- *)
Empty == <<>>
id_A == <<"A">>
id_A_trial2 == <<"A", "_", "t", "r", "i", "a", "l", "2">>
id_wolf_A == <<"w", "o", "l", "f", "_", "A">>
w_wolf == <<"w", "o", "l", "f">>
w_wolves == <<"w", "o", "l", "v", "e", "s">>
w_tri == <<"t", "r", "i">>
path_ok == <<"r", "/", "d", "/", "s", "/", "x">>
path_short == <<"s", "/", "x">>

Min(S) == CHOOSE x \in S : \A y \in S : x <= y
Max(S) == CHOOSE x \in S : \A y \in S : x >= y

\* Python `s in t` for strings: s occurs as a contiguous run of t.
IsIn(s, t) ==
    \E k \in 0..(Len(t) - Len(s)) : SubSeq(t, k + 1, k + Len(s)) = s

\* str.split('/')
RECURSIVE Split(_)
Split(s) ==
    LET pos == {k \in 1..Len(s) : s[k] = "/"}
    IN  IF pos = {} THEN <<s>>
        ELSE <<SubSeq(s, 1, Min(pos) - 1)>>
                 \o Split(SubSeq(s, Min(pos) + 1, Len(s)))

\* seq[-3:]
Last3(seq) == SubSeq(seq, Max({1, Len(seq) - 2}), Len(seq))

\* os.path.join(a, b) for one more component
Join2(a, b) ==
    IF b # Empty /\ b[1] = "/" THEN b
    ELSE IF a = Empty \/ a[Len(a)] = "/" THEN a \o b
    ELSE a \o <<"/">> \o b

data_path == <<"/", "D", "a", "t", "a">>

\* join(data_path, path1, path2, path3)
AudioPath(p) == Join2(Join2(Join2(data_path, p[1]), p[2]), p[3])

(* ------------------------------- dicts -------------------------------- *)
Has(d, k) == \E n \in 1..Len(d) : d[n][1] = k
Get(d, k) == d[CHOOSE n \in 1..Len(d) : d[n][1] = k][2]
Put(d, k, v) ==
    IF Has(d, k)
    THEN [n \in 1..Len(d) |-> IF d[n][1] = k THEN <<k, v>> ELSE d[n]]
    ELSE Append(d, <<k, v>>)
Keys(d) == [n \in 1..Len(d) |-> d[n][1]]
Values(d) == [n \in 1..Len(d) |-> d[n][2]]

\* csv.DictReader: one row dict per data line, keyed by the header
DictRow(names, cells) == [n \in 1..Len(names) |-> <<names[n], cells[n]>>]

(* ---------------------------- get_keywords ---------------------------- *)
\* line 56: the entry's dominant or secondary word occurs in the row's img
Matches(entry, img) == IsIn(entry[1], img) \/ IsIn(entry[2], img)

\* mutants of Same: match on the indexed img instead of its words; keep the
\* last match instead of the first
Same_ImgInName(kw, img) ==
    LET hits == {n \in 1..Len(kw) : IsIn(kw[n][1], img)}
    IN  IF hits = {} THEN <<>> ELSE kw[Min(hits)][2]

Same_LastMatch(kw, img) ==
    LET hits == {n \in 1..Len(kw) : Matches(kw[n][2], img)}
    IN  IF hits = {} THEN <<>> ELSE kw[Max(hits)][2]

\* lines 54-58: first entry, in dict order, with a word in the img name
Same(kw, img) ==
    LET hits == {n \in 1..Len(kw) : Matches(kw[n][2], img)}
    IN  IF hits = {} THEN <<>> ELSE kw[Min(hits)][2]

\* mutants of IndexRow: no `not in keywords` test; an explicit row overrides
\* an entry; the inherited entry repeats the dominant word
IndexRow_LastWins(kw, row) ==
    IF Get(row, "secondary") # Empty
    THEN Put(kw, Get(row, "img"),
             <<Get(row, "dominant"), Get(row, "secondary")>>)
    ELSE LET same == Same(kw, Get(row, "img"))
         IN  IF same # <<>>
             THEN Put(kw, Get(row, "img"), <<same[1], same[2]>>)
             ELSE kw

IndexRow_ExplicitOverrides(kw, row) ==
    IF Has(kw, Get(row, "img")) /\ Get(row, "secondary") = Empty THEN kw
    ELSE IF Get(row, "secondary") # Empty
         THEN Put(kw, Get(row, "img"),
                  <<Get(row, "dominant"), Get(row, "secondary")>>)
         ELSE LET same == Same(kw, Get(row, "img"))
              IN  IF same # <<>>
                  THEN Put(kw, Get(row, "img"), <<same[1], same[2]>>)
                  ELSE kw

IndexRow_RepeatDominant(kw, row) ==
    IF Has(kw, Get(row, "img")) THEN kw
    ELSE IF Get(row, "secondary") # Empty
         THEN Put(kw, Get(row, "img"),
                  <<Get(row, "dominant"), Get(row, "secondary")>>)
         ELSE LET same == Same(kw, Get(row, "img"))
              IN  IF same # <<>>
                  THEN Put(kw, Get(row, "img"), <<same[1], same[1]>>)
                  ELSE kw

\* lines 50-60: the body of the loop over the rows
IndexRow(kw, row) ==
    IF Has(kw, Get(row, "img")) THEN kw
    ELSE IF Get(row, "secondary") # Empty
         THEN Put(kw, Get(row, "img"),
                  <<Get(row, "dominant"), Get(row, "secondary")>>)
         ELSE LET same == Same(kw, Get(row, "img"))
              IN  IF same # <<>>
                  THEN Put(kw, Get(row, "img"), <<same[1], same[2]>>)
                  ELSE kw

Row(n) == DictRow(fieldnames, lines[n])

GetKeywordsRow ==
    /\ pc = "get_keywords"
    /\ i < Len(lines)
    /\ keywords' = IndexRow(keywords, Row(i + 1))
    /\ i' = i + 1
    /\ UNCHANGED <<fieldnames, lines, pc, line, output, calls, err, results,
                   transcript>>

GetKeywordsReturn ==
    /\ pc = "get_keywords"
    /\ i = Len(lines)
    /\ pc' = "main"
    /\ UNCHANGED <<fieldnames, lines, i, keywords, line, output, calls, err,
                   results, transcript>>

(* ------------------------------ tables -------------------------------- *)
Header == <<"img", "audio_path", "dominant", "secondary">>

\* the cells of one data line, in the order of the header `names`
Cells(names, img, ap, dom, sec) ==
    [n \in 1..Len(names) |->
        CASE names[n] = "img" -> img
          [] names[n] = "audio_path" -> ap
          [] names[n] = "dominant" -> dom
          [] OTHER -> sec]

Imgs == {id_A, id_A_trial2, id_wolf_A}

\* rows that give both words, and rows that leave secondary empty
IndexLines ==
    {Cells(Header, img, path_ok, dom, sec) :
        img \in Imgs, dom \in {w_wolf, Empty}, sec \in {w_wolves, w_tri}}
    \cup
    {Cells(Header, img, path_ok, dom, Empty) :
        img \in Imgs, dom \in {w_wolf, Empty}}

Tables(L) == UNION {[1..n -> L] : n \in 0..MaxRows}

InitIndex ==
    /\ fieldnames = Header
    /\ lines \in Tables(IndexLines)
    /\ pc = "get_keywords"
    /\ i = 0
    /\ keywords = <<>>
    /\ line = 1
    /\ output = <<>>
    /\ calls = <<>>
    /\ err = ""
    /\ results = <<>>
    /\ transcript = <<>>

NextIndex == GetKeywordsRow \/ GetKeywordsReturn

SpecIndex == InitIndex /\ [][NextIndex]_vars

(* ----------------------------- transcribe ----------------------------- *)
\* Numbers of a response are carried as the text csv.writer writes for them.
t_2_0 == <<"2", ".", "0">>
t_2_11 == <<"2", ".", "1", "1">>
t_3_5 == <<"3", ".", "5">>
t_3_9 == <<"3", ".", "9">>
c_0_03 == <<"0", ".", "0", "3">>
c_0_9 == <<"0", ".", "9">>
t_well == <<"w", "e", "l", "l", " ">>

\* one element of a keywords_result list (lines 87-92)
SpotOf(word, start, conf, end) ==
    << <<"normalized_text", word>>, <<"start_time", start>>,
       <<"confidence", conf>>, <<"end_time", end>> >>

\* the spots the service can report for a keyword
SpotsOf(word) ==
    {SpotOf(word, t_2_0, c_0_03, t_2_11), SpotOf(word, t_3_5, c_0_9, t_3_9)}

\* a keyword found is listed with at least one spot; a keyword not found is
\* left out of keywords_result
SpotLists(word) == UNION {[1..n -> SpotsOf(word)] : n \in 1..MaxSpots}

\* keywords_result: {} or one or both keywords, in either order
KeywordsResults ==
    {<<>>}
    \cup {<< <<w, l>> >> : w \in {w_wolf}, l \in SpotLists(w_wolf)}
    \cup {<< <<w, l>> >> : w \in {w_wolves}, l \in SpotLists(w_wolves)}
    \cup {<< <<w_wolf, l1>>, <<w_wolves, l2>> >> :
             l1 \in SpotLists(w_wolf), l2 \in SpotLists(w_wolves)}
    \cup {<< <<w_wolves, l2>>, <<w_wolf, l1>> >> :
             l1 \in SpotLists(w_wolf), l2 \in SpotLists(w_wolves)}

\* one element of `alternatives` (lines 95-100)
Alternative ==
    << <<"confidence", c_0_9>>, <<"transcript", t_well>> >>

AlternativeLists == {<<>>, <<Alternative>>}

\* one result segment (lines 84-102), with or without 'keywords_result'
Segments ==
    {<< <<"keywords_result", kr>>, <<"alternatives", alts>>,
        <<"final", TRUE>> >> :
        kr \in KeywordsResults, alts \in AlternativeLists}
    \cup {<< <<"alternatives", alts>>, <<"final", TRUE>> >> :
             alts \in AlternativeLists}

\* the segments that follow the first one
LaterSegments ==
    { << <<"keywords_result",
           << <<w_wolves, <<SpotOf(w_wolves, t_3_5, c_0_9, t_3_9)>> >> >> >>,
         <<"alternatives", <<>> >>, <<"final", TRUE>> >>,
      << <<"alternatives", <<Alternative>> >>, <<"final", TRUE>> >> }

\* get_result()['results']
Responses ==
    {<<>>} \cup
    {<<first>> \o rest :
        first \in Segments,
        rest \in UNION {[1..n -> LaterSegments] : n \in 0..(MaxSegs - 1)}}

\* line 109
Sentinel ==
    << <<"normalized_text", Empty>>, <<"start_time", Empty>>,
       <<"confidence", Empty>>, <<"end_time", Empty>> >>

\* mutants of Transcribe: the last spot of the key; the first segment that
\* has spots, whichever it is
Transcribe_LastSpot(res) ==
    IF res # <<>> /\ Has(res[1], "keywords_result")
        /\ Get(res[1], "keywords_result") # <<>>
    THEN LET kr == Get(res[1], "keywords_result")
             key == Keys(kr)[1]
         IN  Get(kr, key)[Len(Get(kr, key))]
    ELSE Sentinel

Transcribe_AnySegment(res) ==
    LET with == {n \in 1..Len(res) :
                    /\ Has(res[n], "keywords_result")
                    /\ Get(res[n], "keywords_result") # <<>>}
    IN  IF with # {}
        THEN LET kr == Get(res[Min(with)], "keywords_result")
                 key == Keys(kr)[1]
             IN  Get(kr, key)[1]
        ELSE Sentinel

\* lines 106-109: the value transcribe returns for `results`
Transcribe(res) ==
    IF res # <<>> /\ Has(res[1], "keywords_result")
        /\ Get(res[1], "keywords_result") # <<>>
    THEN LET kr == Get(res[1], "keywords_result")
             key == Keys(kr)[1]
         IN  Get(kr, key)[1]
    ELSE Sentinel

(* ------------------------------ __main__ ------------------------------ *)
KwsColumns == <<"kws_word", "kws_start_t", "kws_conf", "kws_end_t">>

\* line 133: the last three segments of row['audio_path']
PathParts(row) == Last3(Split(Get(row, "audio_path")))

\* mutant of Lookup: keywords.get(img, []) instead of keywords[img]
Lookup_Default(kw, img) ==
    [ok |-> TRUE, entry |-> IF Has(kw, img) THEN Get(kw, img) ELSE <<>>]

\* line 136: keywords[row['img']], a KeyError when the img is not a key
Lookup(kw, img) ==
    IF Has(kw, img) THEN [ok |-> TRUE, entry |-> Get(kw, img)]
    ELSE [ok |-> FALSE, entry |-> <<>>]

\* mutant of Propagate: the loop swallows the exception and goes on
Propagate_Swallow(exc) == [pc |-> "main_loop", err |-> ""]

\* lines 125-138: no exception is caught, the program ends with it
Propagate(exc) == [pc |-> "error", err |-> exc]

\* mutant of OutputRow: the four columns only when a keyword was spotted
OutputRow_SpottedOnly(row, tr) ==
    IF tr = Sentinel THEN Values(row) ELSE Values(row) \o Values(tr)

\* line 138: list(row.values()) + list(transcript.values())
OutputRow(row, tr) == Values(row) \o Values(tr)

\* lines 119-124: the files are opened and the header is written
WriteHeader ==
    /\ pc = "main"
    /\ output' = Append(output, fieldnames \o KwsColumns)
    /\ pc' = "main_loop"
    /\ UNCHANGED <<fieldnames, lines, i, keywords, line, calls, err, results,
                   transcript>>

\* the responses the driver's runs draw from
MainResponses ==
    { <<>>,
      << << <<"keywords_result",
              << <<w_wolf, <<SpotOf(w_wolf, t_2_0, c_0_03, t_2_11)>> >> >> >>,
            <<"alternatives", <<Alternative>> >>, <<"final", TRUE>> >> >>,
      << << <<"keywords_result", <<>> >>,
            <<"alternatives", <<Alternative>> >>, <<"final", TRUE>> >> >> }

\* lines 125-136 and 73-81: one row of the loop, up to the answer of the
\* service (or the exception that ends the program)
MainRow ==
    /\ pc = "main_loop"
    /\ line <= Len(lines)
    /\ line' = line + 1
    /\ LET row == Row(line)
           parts == PathParts(row)
           found == Lookup(keywords, Get(row, "img"))
       IN  IF Len(parts) # 3
           THEN /\ pc' = Propagate("ValueError").pc
                /\ err' = Propagate("ValueError").err
                /\ UNCHANGED <<calls, results>>
           ELSE IF ~found.ok
           THEN /\ pc' = Propagate("KeyError").pc
                /\ err' = Propagate("KeyError").err
                /\ UNCHANGED <<calls, results>>
           ELSE \/ /\ pc' = Propagate("OSError").pc   \* open(audio_path)
                   /\ err' = Propagate("OSError").err
                   /\ UNCHANGED <<calls, results>>
                \/ /\ calls' = Append(calls, [audio |-> AudioPath(parts),
                                              keywords |-> found.entry])
                   /\ \/ /\ pc' = Propagate("ApiException").pc
                         /\ err' = Propagate("ApiException").err
                         /\ UNCHANGED results
                      \/ /\ results' \in MainResponses
                         /\ pc' = "transcribe"
                         /\ UNCHANGED err
    /\ UNCHANGED <<fieldnames, lines, i, keywords, output, transcript>>

\* lines 106-109 and 138: transcribe returns and the row is written
TranscribeReturn ==
    /\ pc = "transcribe"
    /\ transcript' = Transcribe(results)
    /\ output' = Append(output, OutputRow(Row(line - 1), transcript'))
    /\ pc' = "main_loop"
    /\ UNCHANGED <<fieldnames, lines, i, keywords, line, calls, err, results>>

\* line 125: the reader is exhausted
MainEnd ==
    /\ pc = "main_loop"
    /\ line > Len(lines)
    /\ pc' = "done"
    /\ UNCHANGED <<fieldnames, lines, i, keywords, line, output, calls, err,
                   results, transcript>>

Header2 == <<"audio_path", "secondary", "img", "dominant">>

MainLines(names) ==
    {Cells(names, img, ap, kw[1], kw[2]) :
        img \in {id_A, id_wolf_A}, ap \in {path_ok, path_short},
        kw \in {<<w_wolf, w_wolves>>, <<Empty, Empty>>}}

Init ==
    /\ fieldnames \in {Header, Header2}
    /\ lines \in Tables(MainLines(fieldnames))
    /\ pc = "get_keywords"
    /\ i = 0
    /\ keywords = <<>>
    /\ line = 1
    /\ output = <<>>
    /\ calls = <<>>
    /\ err = ""
    /\ results = <<>>
    /\ transcript = <<>>

Next ==
    \/ GetKeywordsRow
    \/ GetKeywordsReturn
    \/ WriteHeader
    \/ MainRow
    \/ TranscribeReturn
    \/ MainEnd

Spec == Init /\ [][Next]_vars

\* transcribe alone: the program is inside transcribe for the only row of
\* the table, with any answer of the service
TableWolf == << Cells(Header, id_wolf_A, path_ok, w_wolf, w_wolves) >>

InitTranscribe ==
    /\ fieldnames = Header
    /\ lines = TableWolf
    /\ pc = "transcribe"
    /\ i = 1
    /\ keywords = << <<id_wolf_A, <<w_wolf, w_wolves>> >> >>
    /\ line = 2
    /\ output = << Header \o KwsColumns >>
    /\ calls = << [audio |-> AudioPath(Last3(Split(path_ok))),
                   keywords |-> <<w_wolf, w_wolves>>] >>
    /\ err = ""
    /\ results \in Responses
    /\ transcript = <<>>

NextTranscribe == TranscribeReturn

SpecTranscribe == InitTranscribe /\ [][NextTranscribe]_vars

(* ===================== properties of get_keywords ===================== *)
Img(n) == Get(Row(n), "img")
Dom(n) == Get(Row(n), "dominant")
Sec(n) == Get(Row(n), "secondary")
Explicit(n) == Sec(n) # Empty
Pair(n) == <<Dom(n), Sec(n)>>
Rows == 1..Len(lines)
Returned == pc # "get_keywords"
AllExplicit == \A n \in Rows : Dom(n) # Empty /\ Sec(n) # Empty
FirstRow(img) == Min({n \in Rows : Img(n) = img})

\* C1 as stated: when every row gives both words, the returned index maps
\* the img of every row to that row's own pair, and has no other key.
C1_OwnPair ==
    (Returned /\ AllExplicit) =>
        /\ \A n \in Rows :
              Has(keywords, Img(n)) /\ Get(keywords, Img(n)) = Pair(n)
        /\ \A k \in 1..Len(keywords) : \E n \in Rows : Img(n) = keywords[k][1]

\* C1 as amended: when every row gives both words, the returned index maps
\* each img of the table to the pair of the FIRST row with that img, and has
\* no other key.
C1_FirstRowPair ==
    (Returned /\ AllExplicit) =>
        /\ \A n \in Rows :
              /\ Has(keywords, Img(n))
              /\ Get(keywords, Img(n)) = Pair(FirstRow(Img(n)))
        /\ \A k \in 1..Len(keywords) : \E n \in Rows : Img(n) = keywords[k][1]

C1_Witness ==
    /\ Returned /\ AllExplicit /\ Len(lines) = 3
    /\ Img(1) = Img(3) /\ Pair(1) # Pair(3) /\ Img(2) # Img(1)
    /\ Len(keywords) = 2

\* the table of C2: A,wolf,wolves followed by A_trial2 with no keywords
TableA ==
    << Cells(Header, id_A, path_ok, w_wolf, w_wolves),
       Cells(Header, id_A_trial2, path_ok, Empty, Empty) >>

\* the scan over kw gets to the entry of `key` before any entry stops it
ScanReaches(kw, key, img) ==
    \E n \in 1..Len(kw) :
        kw[n][1] = key /\ \A m \in 1..(n - 1) : ~Matches(kw[m][2], img)

\* C2 as stated: on TableA, A_trial2 is mapped to (wolf, wolves) iff "A" is a
\* substring of "A_trial2" and the scan reaches A's entry.
C2_ImgInName ==
    (Returned /\ lines = TableA) =>
        ( (Has(keywords, id_A_trial2)
              /\ Get(keywords, id_A_trial2) = <<w_wolf, w_wolves>>)
          <=> (IsIn(id_A, id_A_trial2)
                  /\ ScanReaches(keywords, id_A, id_A_trial2)) )

\* C2 as amended: on a table of one explicit row followed by an implicit row
\* with another img, the second img is mapped to the first row's pair iff the
\* first row's dominant or secondary word is a substring of the second img,
\* and is absent from the index otherwise (so A_trial2 is absent on TableA).
C2_WordInName ==
    (Returned /\ Len(lines) = 2 /\ Explicit(1) /\ ~Explicit(2)
        /\ Img(2) # Img(1)) =>
        IF IsIn(Dom(1), Img(2)) \/ IsIn(Sec(1), Img(2))
        THEN Has(keywords, Img(2)) /\ Get(keywords, Img(2)) = Pair(1)
        ELSE ~Has(keywords, Img(2))

C2_Witness ==
    /\ Returned /\ lines = TableA
    /\ IsIn(id_A, id_A_trial2)
    /\ ~Has(keywords, id_A_trial2)

UniqueKeys(d) == \A n, m \in 1..Len(d) : d[n][1] = d[m][1] => n = m

\* C8: a row whose img is already indexed leaves the index unchanged; no
\* step changes or removes an entry already written; keys stay unique.
C8_FirstWins ==
    [][ (pc = "get_keywords" /\ i < Len(lines)) =>
            /\ Has(keywords, Img(i + 1)) => keywords' = keywords
            /\ Len(keywords') >= Len(keywords)
            /\ \A n \in 1..Len(keywords) : keywords'[n] = keywords[n]
            /\ UniqueKeys(keywords') ]_vars

C8_Witness ==
    /\ pc = "get_keywords" /\ i = 3
    /\ Img(1) # Img(2) /\ ~Explicit(2)
    /\ Img(3) = Img(2) /\ Explicit(3)
    /\ Has(keywords, Img(3)) /\ Get(keywords, Img(3)) # Pair(3)

\* C9: an implicit row whose img is not indexed appends a copy of the first
\* entry, in insertion order, of the index built so far that has a word in
\* the img; when the index so far has none, the index is left as it is.
C9_FirstMatchSoFar ==
    [][ (pc = "get_keywords" /\ i < Len(lines) /\ ~Explicit(i + 1)
            /\ ~Has(keywords, Img(i + 1))) =>
          LET img == Img(i + 1)
              hits == {n \in 1..Len(keywords) :
                          \/ IsIn(keywords[n][2][1], img)
                          \/ IsIn(keywords[n][2][2], img)}
          IN  IF hits = {}
              THEN keywords' = keywords
              ELSE \E n \in hits :
                      /\ \A m \in hits : n <= m
                      /\ keywords' = Append(keywords, <<img, keywords[n][2]>>)
      ]_vars

C9_Witness ==
    /\ pc = "get_keywords" /\ i = 3
    /\ ~Explicit(1) /\ ~Has(keywords, Img(1))
    /\ Explicit(2) /\ Matches(Pair(2), Img(1))
    /\ ~Explicit(3) /\ Img(3) \notin {Img(1), Img(2)}
    /\ Has(keywords, Img(3)) /\ Get(keywords, Img(3)) = Pair(2)

\* C10: after any prefix of the table every entry is the pair of an explicit
\* row of that prefix, so its secondary word is not empty.
C10_EntriesFromExplicitRows ==
    \A k \in 1..Len(keywords) :
        /\ keywords[k][2][2] # Empty
        /\ \E n \in 1..i : Explicit(n) /\ keywords[k][2] = Pair(n)

C10_Witness ==
    /\ pc = "get_keywords" /\ i >= 2
    /\ \E n \in 1..i :
          /\ ~Explicit(n) /\ Has(keywords, Img(n))
          /\ \A m \in 1..i : Img(m) = Img(n) => ~Explicit(m)

(* ================= properties of transcribe and __main__ ============== *)
\* the index get_keywords holds after the first k rows
RECURSIVE KeywordsAfter(_)
KeywordsAfter(k) ==
    IF k = 0 THEN <<>> ELSE IndexRow(KeywordsAfter(k - 1), Row(k))

\* no entry of kw has its dominant or its secondary word in img
NoWordIn(kw, img) ==
    \A k \in 1..Len(kw) : ~IsIn(kw[k][2][1], img) /\ ~IsIn(kw[k][2][2], img)

\* no row after n with the img of row n resolves it
NoLaterResolves(n) ==
    \A m \in (n + 1)..Len(lines) :
        Img(m) = Img(n) =>
            ~Explicit(m) /\ NoWordIn(KeywordsAfter(m - 1), Img(m))

InMain == pc \in {"main_loop", "transcribe", "done", "error"}

\* rows the driver loop has taken up so far
Taken == 1..(line - 1)

\* the lookup of an img that is no key raises KeyError: the row is the last
\* one taken, nothing is written and the service is not called for it; and
\* the service is only ever called with an entry of the index
LookupFails ==
    /\ InMain =>
          \A n \in Taken :
              (Len(PathParts(Row(n))) = 3 /\ ~Has(keywords, Img(n))) =>
                  /\ pc = "error" /\ err = "KeyError"
                  /\ line = n + 1
                  /\ Len(output) = n /\ Len(calls) < n
    /\ \A c \in 1..Len(calls) :
          /\ Len(calls[c].keywords) = 2
          /\ \E k \in 1..Len(keywords) : keywords[k][2] = calls[c].keywords

\* C3 as stated: an implicit row whose img holds no word of any entry indexed
\* before it, and that no later row with the same img resolves, leaves the
\* img absent from the returned index; its lookup raises KeyError.
C3_NoWordMeansAbsent ==
    Returned =>
        /\ \A n \in Rows :
              ( /\ ~Explicit(n)
                /\ NoWordIn(KeywordsAfter(n - 1), Img(n))
                /\ NoLaterResolves(n) ) => ~Has(keywords, Img(n))
        /\ LookupFails

\* C3 as amended: the same, for an implicit row whose img is not already a
\* key of the index when the row is processed.
C3_UnindexedNoWordMeansAbsent ==
    Returned =>
        /\ \A n \in Rows :
              ( /\ ~Explicit(n)
                /\ ~Has(KeywordsAfter(n - 1), Img(n))
                /\ NoWordIn(KeywordsAfter(n - 1), Img(n))
                /\ NoLaterResolves(n) ) => ~Has(keywords, Img(n))
        /\ LookupFails

C3_Witness ==
    /\ pc = "error" /\ err = "KeyError" /\ line = 3 /\ Len(lines) = 3
    /\ Explicit(1)
    /\ ~Explicit(2) /\ ~Has(keywords, Img(2))
    /\ Img(3) = Img(2)
    /\ Len(output) = 2 /\ Len(calls) = 1

SpotsFound(res) ==
    /\ res # <<>>
    /\ Has(res[1], "keywords_result")
    /\ Get(res[1], "keywords_result") # <<>>

\* C4: when the first segment of the response has a non-empty keywords_result
\* transcribe returns the first spot of its first key, as the service gave it.
C4_FirstSpotOfFirstKey ==
    (pc = "main_loop" /\ line > 1 /\ err = "" /\ SpotsFound(results)) =>
        LET first == Get(results[1], "keywords_result")[1][2][1]
        IN  /\ transcript = first
            /\ Keys(transcript) = <<"normalized_text", "start_time",
                                    "confidence", "end_time">>

C4_Witness ==
    /\ pc = "main_loop" /\ line > 1
    /\ Len(results) = 2
    /\ SpotsFound(results)
    /\ Len(Get(results[1], "keywords_result")) = 2
    /\ Len(Get(results[1], "keywords_result")[1][2]) = 2
    /\ Get(results[1], "keywords_result")[1][1] = w_wolves
    /\ Get(results[1], "keywords_result")[1][2][1]
          # Get(results[1], "keywords_result")[1][2][2]
    /\ Get(results[1], "alternatives") # <<>>
    /\ transcript = SpotOf(w_wolves, t_3_5, c_0_9, t_3_9)

\* C5: when the response has no segment, or its first segment has no
\* keywords_result or an empty one, transcribe returns the all-blank record,
\* whatever the alternatives and the later segments hold.
C5_BlankWithoutSpots ==
    (pc = "main_loop" /\ line > 1 /\ err = "" /\ ~SpotsFound(results)) =>
        transcript = Sentinel

C5_Witness ==
    /\ pc = "main_loop" /\ line > 1
    /\ Len(results) = 2
    /\ Has(results[1], "keywords_result")
    /\ Get(results[1], "keywords_result") = <<>>
    /\ Get(results[1], "alternatives") # <<>>
    /\ SpotsFound(<<results[2]>>)
    /\ transcript = Sentinel

\* C6: the first row written is the header; every later output row is the
\* input row of the same rank followed by four values, those of the record
\* transcribe returned; a run that ends without error wrote them all.
C6_RowPerInputRow ==
    InMain =>
        /\ output[1] = fieldnames \o KwsColumns
        /\ \A n \in 2..Len(output) :
              /\ Len(output[n]) = Len(fieldnames) + 4
              /\ SubSeq(output[n], 1, Len(fieldnames)) = lines[n - 1]
        /\ (pc = "main_loop" /\ Len(output) > 1) =>
              SubSeq(output[Len(output)], Len(fieldnames) + 1,
                     Len(fieldnames) + 4)
                  = << Get(transcript, "normalized_text"),
                       Get(transcript, "start_time"),
                       Get(transcript, "confidence"),
                       Get(transcript, "end_time") >>
        /\ pc = "main_loop" => Len(output) = line
        /\ pc = "done" => Len(output) = Len(lines) + 1

C6_Witness ==
    /\ pc = "done" /\ Len(lines) = 3 /\ fieldnames = Header2
    /\ output[2][5] = Empty
    /\ output[3][5] = w_wolf
    /\ transcript = Sentinel

\* the row raises whatever the service does
RowMustFail(n) ==
    Len(PathParts(Row(n))) # 3 \/ ~Has(keywords, Img(n))

\* C7: the run ends at the first row that raises: the failing row is the
\* last one taken, the output holds the header and the rows before it in
\* input order, the service was called for no row after it, and no step
\* follows.
C7_FailFast ==
    /\ (pc = "error") <=> (err # "")
    /\ InMain => \A n \in Taken : RowMustFail(n) => pc = "error" /\ line = n + 1
    /\ pc = "error" =>
          /\ Len(output) = line - 1
          /\ \A n \in 2..Len(output) :
                SubSeq(output[n], 1, Len(fieldnames)) = lines[n - 1]
          /\ Len(calls) \in {line - 2, line - 1}
          /\ \A c \in 1..Len(calls) :
                calls[c].audio = AudioPath(PathParts(Row(c)))
          /\ ~ENABLED Next

C7_Witness ==
    /\ pc = "error" /\ err = "ApiException"
    /\ Len(lines) = 3 /\ line = 3
    /\ Len(output) = 2 /\ Len(calls) = 2
    /\ ~RowMustFail(3)

====
